---- MODULE Spec2Model ----
(***************************************************************************)
(* Model of sa_decontamination (src/src/main.rs): the match builder        *)
(* (build_matches / collect_matches) and the contamination marker          *)
(* (mark_contaminates / merge_matches / _check_threshold /                 *)
(* _merge_intervals).                                                      *)
(*                                                                         *)
(* Conventions.                                                            *)
(*  - Rust vectors are TLA+ sequences; a Rust index i is the TLA+ index    *)
(*    i + 1.  Document ids, line numbers and corpus positions are 0-based  *)
(*    as in the source.                                                    *)
(*  - A byte slice is the pair (start offset, length) into its buffer,     *)
(*    which is what a Rust slice is.                                       *)
(*  - threshold (f64) is a dyadic rational num / den with den = 4; these   *)
(*    values and their products with the small document sizes used here    *)
(*    are exact in f64, so (doc_size as f64) * threshold is the exact      *)
(*    product.                                                             *)
(*  - usize/u64 arithmetic never comes near 2^64 within the bounds.        *)
(*  - crate::dedup and crate::io are not among the sources; the three      *)
(*    functions used from dedup are modelled from their specified          *)
(*    contracts.  The JSON decoding of a line and the bincode/gzip         *)
(*    encoding of the persisted vectors are outside the model: a training  *)
(*    document is the sequence of its lines' text bytes and a persisted    *)
(*    vector is the vector.                                                *)
(***************************************************************************)
EXTENDS Integers, Sequences, FiniteSets, Bags, TLC

VARIABLES
    pc,            \* position of the run
    text,          \* the validation corpus text (load_sa_into_memory)
    trainset,      \* training documents, index = path id + 1, each a sequence of lines
    match_size,    \* --match-size
    todo,          \* path ids whose collect_matches task has not run yet
    queries,       \* the calls made to get_occurrences_memory: <<path_idx, line_num, start, len>>
    matches,       \* Vec<(usize, usize, u64)>: the raw matches
    size_object,   \* load_size_object: the document boundaries
    threshold,     \* --threshold, [num, den]
    pending,       \* bag of raw matches whose grouping task has not run yet
    match_groups,  \* DashMap<(doc id, doc size), DashMap<(path id, line), Vec<u64>>>
    undecided,     \* outer keys whose merge task has not run yet
    contaminates,  \* Vec<(usize, usize, usize)>
    starts,        \* a list of interval starts (merge specification)
    other,         \* a rearrangement of starts with repetitions (merge specification)
    merged         \* the result of _merge_intervals (merge specification)

vars == <<pc, text, trainset, match_size, todo, queries, matches, size_object,
          threshold, pending, match_groups, undecided, contaminates,
          starts, other, merged>>

buildVars == <<text, trainset, todo, queries>>
markVars == <<size_object, threshold, pending, match_groups, undecided, contaminates>>
mergeVars == <<starts, other, merged>>

(***************************************************************************)
(* Bounds                                                                  *)
(***************************************************************************)
MaxText == 3        \* longest validation corpus
MaxTrainBytes == 3  \* most text bytes in the training set
MaxLines == 2       \* most lines in the training set
MaxDocs == 2        \* most training documents
MaxMatchSize == 2   \* largest match_size
MaxMatches == 3     \* most raw matches in a match file
MaxPos == 2         \* largest corpus position in a match file
MaxStart == 4       \* largest interval start
MaxStarts == 3      \* longest list of interval starts

Bytes == {97, 98}

(***************************************************************************)
(* Generic helpers                                                         *)
(***************************************************************************)
Range(s) == {s[i] : i \in 1..Len(s)}

Max(a, b) == IF a >= b THEN a ELSE b

MinOf(S) == CHOOSE x \in S : \A y \in S : x <= y

SeqsUpTo(S, n) == UNION {[1..k -> S] : k \in 0..n}

RECURSIVE SeqToBag(_)
SeqToBag(s) == IF s = <<>> THEN EmptyBag ELSE SeqToBag(Tail(s)) (+) SetToBag({Head(s)})

RECURSIVE Flatten(_)
Flatten(ss) == IF ss = <<>> THEN <<>> ELSE Head(ss) \o Flatten(Tail(ss))

RECURSIVE SumSeq(_)
SumSeq(s) == IF s = <<>> THEN 0 ELSE Head(s) + SumSeq(Tail(s))

Perms(S) == {p \in [1..Cardinality(S) -> S] : \A i, j \in 1..Cardinality(S) : p[i] = p[j] => i = j}

EmptyMap == [x \in {} |-> <<>>]

(***************************************************************************)
(* _merge_intervals, main.rs 161-177                                       *)
(***************************************************************************)
\* the position at which a stable sort by key places x after the already placed ones
InsertByKey(sorted, x) ==
    LET later == {i \in 1..Len(sorted) : sorted[i][1] > x[1]}
    IN  IF later = {} THEN Append(sorted, x)
        ELSE LET p == MinOf(later)
             IN  SubSeq(sorted, 1, p - 1) \o <<x>> \o SubSeq(sorted, p, Len(sorted))

\* mutant: the vector is left as it is
sort_by_key_lost(v) == v

\* v.sort_by_key(|(key, _)| key.clone()): a stable sort on the interval start
RECURSIVE sort_by_key(_)
sort_by_key(v) ==
    IF v = <<>> THEN <<>>
    ELSE InsertByKey(sort_by_key(SubSeq(v, 1, Len(v) - 1)), v[Len(v)])

\* mutant: touching intervals are not coalesced (> for >=)
merge_step_strict(mrg, s, e) ==
    IF Len(mrg) = 0 THEN Append(mrg, <<s, e>>)
    ELSE IF mrg[Len(mrg)][2] > s
         THEN LET old == mrg[Len(mrg)]
              IN  Append(SubSeq(mrg, 1, Len(mrg) - 1), <<old[1], Max(e, old[2])>>)
         ELSE Append(mrg, <<s, e>>)

\* the body of the for loop, lines 167-174
merge_step(mrg, s, e) ==
    IF Len(mrg) = 0 THEN Append(mrg, <<s, e>>)
    ELSE IF mrg[Len(mrg)][2] >= s
         THEN LET old == mrg[Len(mrg)]
              IN  Append(SubSeq(mrg, 1, Len(mrg) - 1), <<old[1], Max(e, old[2])>>)
         ELSE Append(mrg, <<s, e>>)

RECURSIVE merge_loop(_, _)
merge_loop(v, mrg) ==
    IF v = <<>> THEN mrg
    ELSE merge_loop(Tail(v), merge_step(mrg, v[1][1], v[1][2]))

\* mutant: the flag is read the wrong way round
merge_intervals_unsorted(v, already_sorted) ==
    merge_loop(IF already_sorted THEN sort_by_key(v) ELSE v, <<>>)

_merge_intervals(v, already_sorted) ==
    merge_loop(IF ~already_sorted THEN sort_by_key(v) ELSE v, <<>>)

(***************************************************************************)
(* _check_threshold, main.rs 149-158                                       *)
(***************************************************************************)
\* lines 152-154
intervals(interval_starts, msize) ==
    [i \in 1..Len(interval_starts) |-> <<interval_starts[i], interval_starts[i] + msize>>]

\* mutant: both ends of an interval are counted (e - s + 1)
total_width_inclusive(interval_starts, msize) ==
    LET merged_intervals == _merge_intervals(intervals(interval_starts, msize), FALSE)
    IN  SumSeq([i \in 1..Len(merged_intervals) |->
                   merged_intervals[i][2] - merged_intervals[i][1] + 1])

\* lines 152-156: covered bytes
total_width(interval_starts, msize) ==
    LET merged_intervals == _merge_intervals(intervals(interval_starts, msize), FALSE)
    IN  SumSeq([i \in 1..Len(merged_intervals) |->
                   merged_intervals[i][2] - merged_intervals[i][1]])

\* line 151: ((doc_size as f64) * threshold).ceil() as usize; the cast saturates at 0
usize_threshold(doc_size, th) ==
    LET p == doc_size * th.num
    IN  IF p <= 0 THEN 0 ELSE (p + th.den - 1) \div th.den

\* mutant: the comparison is turned round
check_threshold_flipped(interval_starts, msize, doc_size, th) ==
    total_width(interval_starts, msize) <= usize_threshold(doc_size, th)

\* mutant: strictly more than the required coverage
check_threshold_strict(interval_starts, msize, doc_size, th) ==
    total_width(interval_starts, msize) > usize_threshold(doc_size, th)

_check_threshold(interval_starts, msize, doc_size, th) ==
    total_width(interval_starts, msize) >= usize_threshold(doc_size, th)

(***************************************************************************)
(* crate::dedup, as specified                                              *)
(***************************************************************************)
\* doc_lookup(sa_pos, &size_object): the unique i with
\* boundaries[i] <= position < boundaries[i+1]
doc_lookup(sa_pos, boundaries) ==
    CHOOSE i \in 0..(Len(boundaries) - 2) :
        boundaries[i + 1] <= sa_pos /\ sa_pos < boundaries[i + 2]

\* whether suffix i of txt sorts before suffix j (bytewise, a proper prefix first)
RECURSIVE SuffixLess(_, _, _)
SuffixLess(txt, i, j) ==
    IF i > Len(txt) THEN j <= Len(txt)
    ELSE IF j > Len(txt) THEN FALSE
    ELSE IF txt[i] # txt[j] THEN txt[i] < txt[j]
    ELSE SuffixLess(txt, i + 1, j + 1)

\* the suffix array of the first n suffixes: the positions 0..n-1 in the order
\* of their suffixes
RECURSIVE suffix_sort(_, _)
suffix_sort(txt, n) ==
    IF n = 0 THEN <<>>
    ELSE LET t == suffix_sort(txt, n - 1)
             after == {i \in 1..Len(t) : SuffixLess(txt, n, t[i] + 1)}
         IN  IF after = {} THEN Append(t, n - 1)
             ELSE SubSeq(t, 1, MinOf(after) - 1) \o <<n - 1>>
                      \o SubSeq(t, MinOf(after), Len(t))

suffix_table(txt) == suffix_sort(txt, Len(txt))

\* get_occurrences_memory(text, .., table, .., query, ..): the table entries of
\* the band of suffixes that start with the query
get_occurrences_memory(txt, query) ==
    SelectSeq(suffix_table(txt),
              LAMBDA p : /\ p + Len(query) <= Len(txt)
                         /\ SubSeq(txt, p + 1, p + Len(query)) = query)

(***************************************************************************)
(* mark_contaminates, main.rs 228-288, and merge_matches, main.rs 131-146  *)
(***************************************************************************)
\* mutant: the list under the inner key is replaced, not appended to
group_insert_replace(groups, rm, boundaries) ==
    LET val_doc_id == doc_lookup(rm[3], boundaries)
        in_doc_pos == rm[3] - boundaries[val_doc_id + 1]
        val_doc_size == boundaries[val_doc_id + 2] - boundaries[val_doc_id + 1]
        okey == <<val_doc_id, val_doc_size>>
        ikey == <<rm[1], rm[2]>>
        inner == IF okey \in DOMAIN groups THEN groups[okey] ELSE EmptyMap
    IN  (okey :> ((ikey :> <<in_doc_pos>>) @@ inner)) @@ groups

\* lines 249-254: the body of one grouping task.  The outer entry() holds the
\* write lock of the outer key's shard until the end of the statement, so the
\* two or_default()s and the push are one step.
group_insert(groups, rm, boundaries) ==
    LET val_doc_id == doc_lookup(rm[3], boundaries)
        in_doc_pos == rm[3] - boundaries[val_doc_id + 1]
        val_doc_size == boundaries[val_doc_id + 2] - boundaries[val_doc_id + 1]
        okey == <<val_doc_id, val_doc_size>>
        ikey == <<rm[1], rm[2]>>
        inner == IF okey \in DOMAIN groups THEN groups[okey] ELSE EmptyMap
        lst == IF ikey \in DOMAIN inner THEN inner[ikey] ELSE <<>>
    IN  (okey :> ((ikey :> Append(lst, in_doc_pos)) @@ inner)) @@ groups

\* merge_matches; order is the order in which doc_matches.iter() yields the keys
merge_matches(val_doc_id, doc_matches, order, msize, val_doc_size, th) ==
    LET hit(k) == _check_threshold(doc_matches[k], msize, val_doc_size, th)
        kept == SelectSeq(order, hit)
    IN  [i \in 1..Len(kept) |-> <<val_doc_id, kept[i][1], kept[i][2]>>]

\* below 0, 0, inside (0, 1), 1 and above 1
Thresholds == {[num |-> n, den |-> 4] : n \in {-1, 0, 2, 4, 5}}

\* boundaries: first element 0, non-decreasing
Boundaries(total) ==
    {b \in UNION {[1..k -> 0..total] : k \in 2..3} :
        /\ b[1] = 0 /\ b[Len(b)] = total
        /\ \A i \in 1..(Len(b) - 1) : b[i] <= b[i + 1]}

\* (path id, line number) of the training lines that matched
TrainKeys == {<<0, 1>>, <<1, 0>>}

RawMatches == {<<k[1], k[2], p>> : k \in TrainKeys, p \in 0..MaxPos}

\* the match files, up to the order of their records
MatchFiles ==
    {m \in SeqsUpTo(RawMatches, MaxMatches) :
        \A i \in 1..(Len(m) - 1) :
            \/ m[i][3] < m[i + 1][3]
            \/ m[i][3] = m[i + 1][3] /\ m[i][1] < m[i + 1][1]
            \/ m[i][3] = m[i + 1][3] /\ m[i][1] = m[i + 1][1] /\ m[i][2] <= m[i + 1][2]}

\* lines 233-241: the boundaries of a corpus of MaxPos + 1 bytes and a match file
\* whose positions lie in it
InitMark ==
    /\ pc = "group"
    /\ text = <<>> /\ trainset = <<>> /\ todo = {} /\ queries = <<>>
    /\ starts = <<>> /\ other = <<>> /\ merged = <<>>
    /\ match_size \in 1..MaxMatchSize
    /\ threshold \in Thresholds
    /\ size_object \in Boundaries(MaxPos + 1)
    /\ matches \in MatchFiles
    /\ pending = SeqToBag(matches)
    /\ match_groups = EmptyMap
    /\ undecided = {}
    /\ contaminates = <<>>

\* lines 247-256: one task of the parallel for_each
Insert(rm) ==
    /\ pc = "group"
    /\ BagIn(rm, pending)
    /\ match_groups' = group_insert(match_groups, rm, size_object)
    /\ pending' = pending (-) SetToBag({rm})
    /\ UNCHANGED <<pc, match_size, matches, buildVars, mergeVars,
                   size_object, threshold, undecided, contaminates>>

\* lines 257-264: the for_each has returned; the groups are handed to par_bridge
StartAggregation ==
    /\ pc = "group"
    /\ pending = EmptyBag
    /\ pc' = "decide"
    /\ undecided' = DOMAIN match_groups
    /\ UNCHANGED <<match_size, matches, buildVars, mergeVars,
                   size_object, threshold, pending, match_groups, contaminates>>

\* lines 264-269: one task of the flat_map, its records collected
Decide(okey, order) ==
    /\ pc = "decide"
    /\ okey \in undecided
    /\ order \in Perms(DOMAIN match_groups[okey])
    /\ contaminates' = contaminates \o
           merge_matches(okey[1], match_groups[okey], order, match_size, okey[2], threshold)
    /\ undecided' = undecided \ {okey}
    /\ UNCHANGED <<pc, match_size, matches, buildVars, mergeVars,
                   size_object, threshold, pending, match_groups>>

\* lines 270-287: the records are saved
SaveContaminates ==
    /\ pc = "decide"
    /\ undecided = {}
    /\ pc' = "done"
    /\ UNCHANGED <<match_size, matches, buildVars, mergeVars, markVars>>

NextMark ==
    \/ \E rm \in BagToSet(pending) : Insert(rm)
    \/ StartAggregation
    \/ \E okey \in undecided : \E order \in Perms(DOMAIN match_groups[okey]) :
           Decide(okey, order)
    \/ SaveContaminates

Spec == InitMark /\ [][NextMark]_vars

(***************************************************************************)
(* collect_matches, main.rs 101-123, and build_matches, main.rs 185-225    *)
(***************************************************************************)
\* mutant: the window that ends at the end of the line is left out
windows_from_short(start, len, size) ==
    [i \in 1..(IF size >= len - start THEN 0 ELSE len - start - size) |->
        <<start + i - 1, size>>]

\* <[u8]>::windows(size) on the rest of a slice of len bytes from start on: while
\* size bytes are left, the slice of the first size bytes, then one byte on
RECURSIVE windows_from(_, _, _)
windows_from(start, len, size) ==
    IF size > len - start THEN <<>>
    ELSE << <<start, size>> >> \o windows_from(start + 1, len, size)

\* line 116: line_text.windows(match_size)
windows(line_text, size) == windows_from(0, Len(line_text), size)

\* the bytes of a slice
slice_bytes(line_text, w) == SubSeq(line_text, w[1] + 1, w[1] + w[2])

\* mutant: only the first occurrence of a window is pushed
line_matches_first(line_text, path_idx, line_num, txt, msize) ==
    LET ws == windows(line_text, msize)
    IN  Flatten([w \in 1..Len(ws) |->
            LET occ == get_occurrences_memory(txt, slice_bytes(line_text, ws[w]))
            IN  [j \in 1..(IF Len(occ) > 0 THEN 1 ELSE 0) |->
                    <<path_idx, line_num, occ[j]>>]])

\* lines 116-120: the pushes for one line
line_matches(line_text, path_idx, line_num, txt, msize) ==
    LET ws == windows(line_text, msize)
    IN  Flatten([w \in 1..Len(ws) |->
            LET occ == get_occurrences_memory(txt, slice_bytes(line_text, ws[w]))
            IN  [j \in 1..Len(occ) |-> <<path_idx, line_num, occ[j]>>]])

\* lines 107-122: the output of collect_matches for one document
collect_matches(data, path_idx, txt, msize) ==
    Flatten([n \in 1..Len(data) |-> line_matches(data[n], path_idx, n - 1, txt, msize)])

\* the queries collect_matches puts to get_occurrences_memory, in order
collect_queries(data, path_idx, msize) ==
    Flatten([n \in 1..Len(data) |->
        LET ws == windows(data[n], msize)
        IN  [w \in 1..Len(ws) |-> <<path_idx, n - 1, ws[w][1], ws[w][2]>>]])

Texts == SeqsUpTo(Bytes, MaxText)

RECURSIVE TotalBytes(_)
TotalBytes(ls) == IF ls = <<>> THEN 0 ELSE Len(Head(ls)) + TotalBytes(Tail(ls))

\* the lines of a training set, one after the other
FlatLines ==
    {ls \in SeqsUpTo(SeqsUpTo(Bytes, MaxTrainBytes), MaxLines) :
        TotalBytes(ls) <= MaxTrainBytes}

\* the lines ls as d documents of at least one line, line i in document c[i]
Split(ls, d, c) ==
    [j \in 1..d |->
        LET mine == {i \in 1..Len(ls) : c[i] = j}
        IN  IF mine = {} THEN <<>>
            ELSE SubSeq(ls, MinOf(mine), MinOf(mine) + Cardinality(mine) - 1)]

\* lines 189-197: the sorted input files with their ids, the index loaded
InitBuildVars ==
    /\ pc = "collect"
    /\ text \in Texts
    /\ \E ls \in FlatLines : \E d \in 1..MaxDocs : \E c \in [1..Len(ls) -> 1..d] :
          /\ \A i \in 1..(Len(ls) - 1) : c[i] <= c[i + 1]
          /\ \A j \in 1..d : \E i \in 1..Len(ls) : c[i] = j
          /\ trainset = Split(ls, d, c)
    /\ match_size \in 1..MaxMatchSize
    /\ todo = 0..(Len(trainset) - 1)
    /\ queries = <<>>
    /\ matches = <<>>
    /\ starts = <<>> /\ other = <<>> /\ merged = <<>>

InitBuild ==
    /\ InitBuildVars
    /\ size_object = <<0>> /\ threshold = [num |-> 0, den |-> 4]
    /\ pending = EmptyBag /\ match_groups = EmptyMap /\ undecided = {}
    /\ contaminates = <<>>

\* lines 203-209: one task of the parallel flat_map
CollectDoc(idx) ==
    /\ pc = "collect"
    /\ idx \in todo
    /\ matches' = matches \o collect_matches(trainset[idx + 1], idx, text, match_size)
    /\ queries' = queries \o collect_queries(trainset[idx + 1], idx, match_size)
    /\ todo' = todo \ {idx}
    /\ UNCHANGED <<pc, text, trainset, match_size, markVars, mergeVars>>

\* lines 210-224: the matches are saved
SaveMatches ==
    /\ pc = "collect"
    /\ todo = {}
    /\ pc' = "saved"
    /\ UNCHANGED <<match_size, matches, buildVars, markVars, mergeVars>>

NextBuild ==
    \/ \E idx \in todo : CollectDoc(idx)
    \/ SaveMatches

SpecBuild == InitBuild /\ [][NextBuild]_vars

(***************************************************************************)
(* The two commands one after the other: mark_contaminates reads the match *)
(* file build_matches wrote, with the boundaries of the same corpus.       *)
(***************************************************************************)
\* the thresholds 1/2 and 1; the groups do not depend on the threshold
InitPipeline ==
    /\ InitBuildVars
    /\ size_object \in Boundaries(Len(text))
    /\ threshold \in {t \in Thresholds : t.num \in {2, 4}}
    /\ pending = EmptyBag /\ match_groups = EmptyMap /\ undecided = {}
    /\ contaminates = <<>>

\* lines 233-246
LoadMatches ==
    /\ pc = "saved"
    /\ pc' = "group"
    /\ pending' = SeqToBag(matches)
    /\ UNCHANGED <<match_size, matches, buildVars, mergeVars,
                   size_object, threshold, match_groups, undecided, contaminates>>

NextPipeline ==
    \/ \E idx \in todo : CollectDoc(idx)
    \/ SaveMatches
    \/ LoadMatches
    \/ \E rm \in BagToSet(pending) : Insert(rm)
    \/ StartAggregation
    \/ \E okey \in undecided : \E order \in Perms(DOMAIN match_groups[okey]) :
           Decide(okey, order)
    \/ SaveContaminates

SpecPipeline == InitPipeline /\ [][NextPipeline]_vars

(***************************************************************************)
(* The merge specification: _merge_intervals and the covered bytes on      *)
(* lists of starts, their rearrangements and repetitions.                  *)
(***************************************************************************)
Dummy ==
    /\ text = <<>> /\ trainset = <<>> /\ todo = {} /\ queries = <<>>
    /\ matches = <<>> /\ size_object = <<0>> /\ threshold = [num |-> 0, den |-> 4]
    /\ pending = EmptyBag /\ match_groups = EmptyMap /\ undecided = {}
    /\ contaminates = <<>>

InitMerge ==
    /\ Dummy
    /\ pc = "merge"
    /\ match_size \in 0..MaxMatchSize
    /\ starts \in SeqsUpTo(0..MaxStart, MaxStarts)
    /\ other = starts
    /\ merged = <<>>

\* two neighbours of the list change places
Rearrange(i) ==
    /\ pc = "merge"
    /\ i \in 1..(Len(other) - 1)
    /\ other[i] # other[i + 1]
    /\ other' = [other EXCEPT ![i] = other[i + 1], ![i + 1] = other[i]]
    /\ UNCHANGED <<pc, match_size, matches, buildVars, markVars, starts, merged>>

\* an offset of the list is repeated
Repeat(i) ==
    /\ pc = "merge"
    /\ i \in 1..Len(other)
    /\ Len(other) <= MaxStarts
    /\ other' = Append(other, other[i])
    /\ UNCHANGED <<pc, match_size, matches, buildVars, markVars, starts, merged>>

\* line 155 on the intervals of the list
RunMerge ==
    /\ pc = "merge"
    /\ merged' = _merge_intervals(intervals(other, match_size), FALSE)
    /\ pc' = "merged"
    /\ UNCHANGED <<match_size, matches, buildVars, markVars, starts, other>>

NextMerge ==
    \/ \E i \in 1..(MaxStarts + 1) : Rearrange(i)
    \/ \E i \in 1..(MaxStarts + 1) : Repeat(i)
    \/ RunMerge

SpecMerge == InitMerge /\ [][NextMerge]_vars

(***************************************************************************)
(* Claims about mark_contaminates (Spec)                                   *)
(***************************************************************************)
Count(s, x) == Cardinality({i \in 1..Len(s) : s[i] = x})

NumValDocs == Len(size_object) - 1

DocSize(v) == size_object[v + 2] - size_object[v + 1]

\* the list stored under outer key okey and inner key ikey, empty when there is none
Stored(okey, ikey) ==
    IF okey \in DOMAIN match_groups /\ ikey \in DOMAIN match_groups[okey]
    THEN match_groups[okey][ikey] ELSE <<>>

\* the number of offsets stored over all groups
StoredTotal ==
    LET keys == {<<o, k>> : o \in DOMAIN match_groups, k \in TrainKeys}
        RECURSIVE Total(_)
        Total(S) == IF S = {} THEN 0
                    ELSE LET x == CHOOSE y \in S : TRUE
                         IN  Len(Stored(x[1], x[2])) + Total(S \ {x})
    IN  Total(keys)

GroupingFinished == pc \in {"decide", "done"} \/ (pc = "group" /\ pending = EmptyBag)

\* C1: once every grouping task has run, whatever their order, the list under
\* (v, size_v) and (t, l) holds pos - boundaries[v] once for every input match
\* (t, l, pos) located in document v and nothing else, size_v is
\* boundaries[v+1] - boundaries[v], and the stored offsets are as many as the
\* input matches.
C1_GroupsHoldEveryMatchOnce ==
    GroupingFinished =>
        /\ \A okey \in DOMAIN match_groups :
              /\ okey[1] \in 0..(NumValDocs - 1)
              /\ okey[2] = DocSize(okey[1])
              /\ DOMAIN match_groups[okey] \subseteq TrainKeys
        /\ \A v \in 0..(NumValDocs - 1) : \A k \in TrainKeys :
              \A o \in 0..size_object[Len(size_object)] :
                  Count(Stored(<<v, DocSize(v)>>, k), o) =
                  Cardinality({i \in 1..Len(matches) :
                      /\ matches[i] = <<k[1], k[2], o + size_object[v + 1]>>
                      /\ size_object[v + 1] <= matches[i][3]
                      /\ matches[i][3] < size_object[v + 2]})
        /\ StoredTotal = Len(matches)

\* three matches were grouped into two documents, two of them under one inner
\* key in an order other than that of the match file
C1_Witness ==
    /\ pc = "decide"
    /\ Len(matches) = 3
    /\ Cardinality(DOMAIN match_groups) = 2
    /\ \E okey \in DOMAIN match_groups : \E k \in DOMAIN match_groups[okey] :
          /\ Len(match_groups[okey][k]) = 2
          /\ match_groups[okey][k][1] > match_groups[okey][k][2]

\* ceil(size * th) over the rationals
RequiredCoverage(size, th) ==
    CHOOSE n \in (-(2 * size) - 1)..(2 * size + 1) :
        /\ n * th.den >= size * th.num
        /\ (n - 1) * th.den < size * th.num

\* C2: the output holds (v, t, l) exactly once when the covered bytes of the
\* list under (v, size), (t, l) reach ceil(size * threshold), not at all
\* otherwise, and holds no record without a group entry.
C2_RecordIffCoverageReached ==
    pc = "done" =>
        /\ \A okey \in DOMAIN match_groups : \A k \in DOMAIN match_groups[okey] :
              Count(contaminates, <<okey[1], k[1], k[2]>>) =
                  IF total_width(match_groups[okey][k], match_size)
                         >= RequiredCoverage(okey[2], threshold)
                  THEN 1 ELSE 0
        /\ \A r \in Range(contaminates) :
              \E okey \in DOMAIN match_groups :
                  okey[1] = r[1] /\ <<r[2], r[3]>> \in DOMAIN match_groups[okey]

\* one line reached the required coverage exactly, another of the same
\* document stayed below it
C2_Witness ==
    /\ pc = "done"
    /\ threshold = [num |-> 2, den |-> 4]
    /\ \E okey \in DOMAIN match_groups : \E k1, k2 \in DOMAIN match_groups[okey] :
          /\ total_width(match_groups[okey][k1], match_size)
                 = RequiredCoverage(okey[2], threshold)
          /\ total_width(match_groups[okey][k2], match_size)
                 < RequiredCoverage(okey[2], threshold)
          /\ contaminates = << <<okey[1], k1[1], k1[2]>> >>

\* the records the inputs call for: the bytes covered by the matches of a line
\* in a document, counted as a set of byte positions
ExpectedRecords ==
    {r \in {<<v, k[1], k[2]>> : v \in 0..(NumValDocs - 1), k \in TrainKeys} :
        LET offs == {matches[i][3] - size_object[r[1] + 1] :
                        i \in {j \in 1..Len(matches) :
                                 /\ matches[j][1] = r[2] /\ matches[j][2] = r[3]
                                 /\ size_object[r[1] + 1] <= matches[j][3]
                                 /\ matches[j][3] < size_object[r[1] + 2]}}
            bytes == UNION {o..(o + match_size - 1) : o \in offs}
        IN  /\ offs # {}
            /\ Cardinality(bytes) >= RequiredCoverage(DocSize(r[1]), threshold)}

\* C4: the set of emitted records is a function of the match file, the
\* boundaries, match_size and threshold alone: every order of the grouping
\* tasks and of the decision tasks ends with the same set.
C4_RecordsIndependentOfSchedule ==
    pc = "done" => Range(contaminates) = ExpectedRecords

\* a list that the grouping left out of order was decided and emitted, and
\* the decision tasks of two documents both emitted
C4_Witness ==
    /\ pc = "done"
    /\ Len(contaminates) = 2
    /\ contaminates[1][1] > contaminates[2][1]
    /\ \E okey \in DOMAIN match_groups : \E k \in DOMAIN match_groups[okey] :
          /\ Len(match_groups[okey][k]) = 2
          /\ match_groups[okey][k][1] > match_groups[okey][k][2]
          /\ <<okey[1], k[1], k[2]>> \in Range(contaminates)

AnyOrder(S) == CHOOSE p \in Perms(S) : TRUE

\* what the decision stage emits from the present groups under threshold th
Emitted(th) ==
    UNION {Range(merge_matches(okey[1], match_groups[okey],
                               AnyOrder(DOMAIN match_groups[okey]),
                               match_size, okey[2], th)) :
           okey \in DOMAIN match_groups}

ThLess(t1, t2) == t1.num * t2.den < t2.num * t1.den

\* C9: for the same groups and match_size, a higher threshold emits a subset
\* of the records and a lower one a superset.
C9_ThresholdMonotone ==
    pc = "done" =>
        \A t \in Thresholds :
            /\ ThLess(threshold, t) => Emitted(t) \subseteq Range(contaminates)
            /\ ThLess(t, threshold) => Range(contaminates) \subseteq Emitted(t)

\* a higher threshold drops some of the emitted records and keeps others
C9_Witness ==
    /\ pc = "done"
    /\ \E t \in Thresholds :
          /\ ThLess(threshold, t)
          /\ Emitted(t) # {}
          /\ Emitted(t) # Range(contaminates)

(***************************************************************************)
(* Claims about build_matches (SpecBuild)                                  *)
(***************************************************************************)
\* the number of times the index returns position p for the window of
\* match_size bytes at offset w of the line
Returned(line_text, w, p) ==
    Count(get_occurrences_memory(text, SubSeq(line_text, w + 1, w + match_size)), p)

\* C5: when the collection has finished, whatever the order of the document
\* tasks, the matches hold (doc_id, line_num, p) once for every window of
\* that line and every time the index returns p for that window, and
\* nothing else.
C5_MatchesAreMultisetUnion ==
    pc = "saved" =>
        /\ \A r \in Range(matches) :
              /\ r[1] \in 0..(Len(trainset) - 1)
              /\ r[2] \in 0..(Len(trainset[r[1] + 1]) - 1)
              /\ r[3] \in 0..(Len(text) - 1)
        /\ \A d \in 0..(Len(trainset) - 1) : \A l \in 0..(Len(trainset[d + 1]) - 1) :
              \A p \in 0..(Len(text) - 1) :
                  LET line_text == trainset[d + 1][l + 1]
                  IN  Count(matches, <<d, l, p>>) =
                          SumSeq([i \in 1..(Len(line_text) - match_size + 1) |->
                                     Returned(line_text, i - 1, p)])

\* two documents were collected, the second first, and two windows of one
\* line gave the same match twice
C5_Witness ==
    /\ pc = "saved"
    /\ Len(trainset) = 2
    /\ Len(matches) >= 3
    /\ matches[1][1] = 1
    /\ \E i, j \in 1..Len(matches) : i < j /\ matches[i] = matches[j]

\* the queries made for line l of document d, in order
QueriesOf(d, l) == SelectSeq(queries, LAMBDA q : q[1] = d /\ q[2] = l)

\* C6: for a line of n bytes and match_size m >= 1 the windows queried are the
\* spans of m bytes at the offsets 0..n-m, n - m + 1 of them, when m <= n,
\* and none when n < m.
C6_WindowsAreAllSpans ==
    \A d \in 0..(Len(trainset) - 1) : \A l \in 0..(Len(trainset[d + 1]) - 1) :
        d \notin todo =>
            LET n == Len(trainset[d + 1][l + 1])
                m == match_size
            IN  /\ m >= 1
                /\ QueriesOf(d, l) =
                       IF m <= n THEN [i \in 1..(n - m + 1) |-> <<d, l, i - 1, m>>]
                       ELSE <<>>

\* a line of three bytes gave two windows of two bytes and a shorter line none
C6_Witness ==
    /\ pc = "saved"
    /\ match_size = 2
    /\ \E d \in 0..(Len(trainset) - 1) : \E l \in 0..(Len(trainset[d + 1]) - 1) :
          /\ Len(trainset[d + 1][l + 1]) = 3
          /\ QueriesOf(d, l) = << <<d, l, 0, 2>>, <<d, l, 1, 2>> >>
    /\ \E d \in 0..(Len(trainset) - 1) : \E l \in 0..(Len(trainset[d + 1]) - 1) :
          /\ Len(trainset[d + 1][l + 1]) < match_size
          /\ QueriesOf(d, l) = <<>>

Points(v) == UNION {v[i][1]..(v[i][2] - 1) : i \in 1..Len(v)}

Widths(v) == SumSeq([i \in 1..Len(v) |-> v[i][2] - v[i][1]])

\* C3: _merge_intervals(v, false) on intervals [s, s + match_size) returns
\* intervals sorted by start, consecutive ones separated by a strict gap
\* (previous end < next start), whose union is the union of the input.
C3_MergeIsMinimalDisjoint ==
    pc = "merged" =>
        /\ \A i \in 1..(Len(merged) - 1) : merged[i][1] <= merged[i + 1][1]
        /\ \A i \in 1..(Len(merged) - 1) : merged[i][2] < merged[i + 1][1]
        /\ Points(merged) = Points(intervals(other, match_size))

\* an unsorted list with touching intervals was merged into two runs
C3_Witness ==
    /\ pc = "merged"
    /\ match_size = 1
    /\ other = <<3, 0, 1>>
    /\ merged = << <<0, 2>>, <<3, 4>> >>

\* C7: the covered bytes of a list equal those of any rearrangement of it
\* with repetitions of offsets it already holds.
C7_CoverageDependsOnOffsetSet ==
    pc = "merged" =>
        /\ Range(other) = Range(starts)
        /\ Widths(merged) = total_width(starts, match_size)

\* a rearranged list with a repeated offset was merged
C7_Witness ==
    /\ pc = "merged"
    /\ match_size = 2
    /\ starts = <<0, 3>>
    /\ other = <<3, 0, 3>>
    /\ Widths(merged) = 4

\* C8: match_size <= covered bytes <= len(L) * match_size for a non-empty
\* list L, and the covered bytes of the empty list are 0.
C8_CoverageBounds ==
    pc = "merged" =>
        LET w == total_width(other, match_size)
        IN  /\ w = Widths(merged)
            /\ IF other = <<>> THEN w = 0
               ELSE match_size <= w /\ w <= Len(other) * match_size

\* both bounds are met with strict inequality somewhere: overlapping intervals
C8_Witness ==
    /\ pc = "merged"
    /\ match_size = 2
    /\ other = <<0, 1, 4>>
    /\ total_width(other, match_size) = 5

====
